---- MODULE Spec2Model ----
(***************************************************************************)
(* X509_VERIFY_PARAM (crypto/x509/x509_vpm.c): the verification-parameter  *)
(* store, its identity setters and the inheritance (merge) algorithm.      *)
(*                                                                         *)
(* A store is a record with the fields of the C struct.  A pointer field   *)
(* is NULL (the empty tuple) or Ptr(v) (a one-element tuple holding the    *)
(* pointee); strings and byte buffers are sequences of byte values, 0      *)
(* being the NUL byte.  A bitset is the set of the names of its bits.      *)
(* Every operation is a pure operator from the store(s) and the inputs to  *)
(* a result record [param, ret, fail], and an action that applies it.      *)
(***************************************************************************)
EXTENDS Integers, Sequences, FiniteSets, TLC

VARIABLES p, pre, last, mem

vars == <<p, pre, last, mem>>

\* ------------------------------------------------------------------ bounds

\* longest caller-supplied name / email buffer
MaxLen == 2

\* longest host list the host setters are driven to
MaxHosts == 2

\* longest policies list the policy setters are driven to
MaxPolicies == 2

\* number of cells of the heap the lists are allocated in
MaxAddr == 8

\* ---------------------------------------------------------- pointers, bytes

NULL == <<>>

Ptr(x) == <<x>>

Deref(q) == q[1]

NUL == 0

\* the one non-NUL character of the caller buffers ('a')
CharA == 97

Min(a, b) == IF a < b THEN a ELSE b

\* strlen: the bytes before the first NUL; a buffer without one is followed
\* by its terminator
strlen(buf) ==
  IF \E i \in 1..Len(buf) : buf[i] = NUL
  THEN (CHOOSE i \in 1..Len(buf) :
          buf[i] = NUL /\ \A j \in 1..(i - 1) : buf[j] # NUL) - 1
  ELSE Len(buf)

\* OPENSSL_memchr(buf, c, n) # NULL
OPENSSL_memchr(buf, c, n) == \E i \in 1..Min(n, Len(buf)) : buf[i] = c

\* OPENSSL_strndup: at most n bytes, stopping at the first NUL
OPENSSL_strndup(buf, n) == SubSeq(buf, 1, Min(n, strlen(buf)))

OPENSSL_memdup(buf, n) == SubSeq(buf, 1, n)

\* -------------------------------------------------------------------- heap

\* The heap holds the host lists, the policies lists and their elements for
\* the specification that follows who owns which allocation.  A cell is
\* free, a string, an object identifier or a list (the addresses of its
\* elements).  The other specifications keep the lists as values in the
\* stores and leave the heap empty.
Addr == 1..MaxAddr

\* the address a failed allocation returns
NoAddr == 0

Cell(kind, val) == [kind |-> kind, val |-> val]

FreeCell == Cell("free", <<>>)

EmptyMem == [a \in Addr |-> FreeCell]

\* the unused cells of the region A of the heap
Unused(m, A) == {a \in A : m[a] = FreeCell}

\* the n lowest addresses of S, in order
RECURSIVE Lowest(_, _)
Lowest(S, n) ==
  IF n = 0
  THEN <<>>
  ELSE LET a == CHOOSE x \in S : \A y \in S : x <= y
       IN  <<a>> \o Lowest(S \ {a}, n - 1)

\* OPENSSL_malloc: an allocator may hand out any unused cell.  This one
\* serves the calls on a store from a region A of its own and hands out the
\* lowest unused address of it, so that a freed cell is the next one handed
\* out; NoAddr when the region is exhausted.
OPENSSL_malloc(m, A) ==
  IF Unused(m, A) = {} THEN NoAddr ELSE Lowest(Unused(m, A), 1)[1]

Store(m, a, cell) == [m EXCEPT ![a] = cell]

\* OPENSSL_free of every address of S
Release(m, S) == [a \in Addr |-> IF a \in S THEN FreeCell ELSE m[a]]

Range(s) == {s[i] : i \in 1..Len(s)}

\* ------------------------------------------------------------------- flags

X509_VP_FLAG_DEFAULT == "DEFAULT"

X509_VP_FLAG_OVERWRITE == "OVERWRITE"

X509_VP_FLAG_RESET_FLAGS == "RESET_FLAGS"

X509_VP_FLAG_LOCKED == "LOCKED"

X509_VP_FLAG_ONCE == "ONCE"

InhBits ==
  {X509_VP_FLAG_DEFAULT, X509_VP_FLAG_OVERWRITE, X509_VP_FLAG_RESET_FLAGS,
   X509_VP_FLAG_LOCKED, X509_VP_FLAG_ONCE}

X509_V_FLAG_USE_CHECK_TIME == "USE_CHECK_TIME"

X509_V_FLAG_POLICY_CHECK == "POLICY_CHECK"

X509_V_FLAG_TRUSTED_FIRST == "TRUSTED_FIRST"

\* one of the bits of X509_V_FLAG_POLICY_MASK
X509_V_FLAG_EXPLICIT_POLICY == "EXPLICIT_POLICY"

X509_V_FLAG_POLICY_MASK == {X509_V_FLAG_EXPLICIT_POLICY}

FlagBits ==
  {X509_V_FLAG_USE_CHECK_TIME, X509_V_FLAG_POLICY_CHECK,
   X509_V_FLAG_TRUSTED_FIRST, X509_V_FLAG_EXPLICIT_POLICY}

\* ------------------------------------------------------- allocation sites

\* The allocation that fails in a call, if it is reached ("none": no failure)
AllocNone == "none"

AllocStrndup == "OPENSSL_strndup"

AllocNewNull == "sk_OPENSSL_STRING_new_null"

AllocPush == "sk_OPENSSL_STRING_push"

AllocPolicies == "sk_ASN1_OBJECT_deep_copy"

AllocHosts == "sk_OPENSSL_STRING_deep_copy"

AllocMemdup == "OPENSSL_memdup"

\* the result of a call: the store after it, the returned int, and the
\* allocation that failed in it
Res(param, ret, fail) == [param |-> param, ret |-> ret, fail |-> fail]

\* ------------------------------------------------------------ construction

X509_VERIFY_PARAM_new ==
  [check_time |-> 0, inh_flags |-> {}, flags |-> {}, purpose |-> 0,
   trust |-> 0, depth |-> -1, policies |-> NULL, hosts |-> NULL,
   hostflags |-> 0, email |-> NULL, emaillen |-> 0, ip |-> NULL,
   iplen |-> 0, poison |-> 0]

\* ------------------------------------------------------------ host setters

SET_HOST == 0

ADD_HOST == 1

\* the list a push appends to: param->hosts, or a new empty list (line 108)
HostList(param) == IF param.hosts = NULL THEN <<>> ELSE Deref(param.hosts)

\* (mutation of ClearHosts: the list is freed in either mode)
ClearHosts_AnyMode(param, mode) ==
  IF param.hosts # NULL THEN [param EXCEPT !.hosts = NULL] ELSE param

\* lines 92-95: SET_HOST frees the configured list first
ClearHosts(param, mode) ==
  IF mode = SET_HOST /\ param.hosts # NULL
  THEN [param EXCEPT !.hosts = NULL]
  ELSE param

\* (mutation of PushFailed: the list a failed push leaves empty is kept)
PushFailed_KeepEmpty(param) == [param EXCEPT !.hosts = Ptr(HostList(param))]

\* lines 114-121: a failed push frees a list it leaves empty
PushFailed(param) ==
  IF Len(HostList(param)) = 0 THEN [param EXCEPT !.hosts = NULL] ELSE param

\* (mutation of int_x509_param_set_hosts: SET_HOST clears the list before the
\* name is scanned for a NUL)
int_x509_param_set_hosts_ClearFirst(param, mode, name, namelen, oom) ==
  LET n == IF name # NULL /\ namelen = 0 THEN strlen(Deref(name)) ELSE namelen
      cleared == ClearHosts(param, mode)
  IN  IF name # NULL /\ OPENSSL_memchr(Deref(name), NUL, n)
      THEN Res(cleared, 0, AllocNone)
      ELSE IF name = NULL \/ n = 0
      THEN Res(cleared, 1, AllocNone)
      ELSE IF oom \in {AllocStrndup, AllocNewNull, AllocPush}
      THEN Res(cleared, 0, oom)
      ELSE Res([cleared EXCEPT !.hosts =
                  Ptr(Append(HostList(cleared),
                             OPENSSL_strndup(Deref(name), n)))],
               1, AllocNone)

int_x509_param_set_hosts(param, mode, name, namelen, oom) ==
  LET n == IF name # NULL /\ namelen = 0 THEN strlen(Deref(name)) ELSE namelen
      cleared == ClearHosts(param, mode)
  IN  IF name # NULL /\ OPENSSL_memchr(Deref(name), NUL, n)
      THEN Res(param, 0, AllocNone)
      ELSE IF name = NULL \/ n = 0
      THEN Res(cleared, 1, AllocNone)
      ELSE IF oom = AllocStrndup
      THEN Res(cleared, 0, AllocStrndup)
      ELSE IF cleared.hosts = NULL /\ oom = AllocNewNull
      THEN Res(cleared, 0, AllocNewNull)
      ELSE IF oom = AllocPush
      THEN Res(PushFailed(cleared), 0, AllocPush)
      ELSE Res([cleared EXCEPT !.hosts =
                  Ptr(Append(HostList(cleared),
                             OPENSSL_strndup(Deref(name), n)))],
               1, AllocNone)

\* lines 433-436 and 442-445: a failed host call poisons the store
PoisonOnFailure(r) ==
  IF r.ret = 0 THEN Res([r.param EXCEPT !.poison = 1], 0, r.fail) ELSE r

X509_VERIFY_PARAM_set1_host(param, name, namelen, oom) ==
  PoisonOnFailure(int_x509_param_set_hosts(param, SET_HOST, name, namelen, oom))

X509_VERIFY_PARAM_add1_host(param, name, namelen, oom) ==
  PoisonOnFailure(int_x509_param_set_hosts(param, ADD_HOST, name, namelen, oom))

X509_VERIFY_PARAM_set_hostflags(param, flags) ==
  Res([param EXCEPT !.hostflags = flags], 1, AllocNone)

\* ----------------------------------------------------------- email setter

\* *pdest and *pdestlen after the call, as [ret, dest, destlen, fail]
int_x509_param_set1_email(dest, destlen, src, srclen, oom) ==
  IF src # NULL
  THEN LET n == IF srclen = 0 THEN strlen(Deref(src)) ELSE srclen
       IN  IF oom = AllocStrndup
           THEN [ret |-> 0, dest |-> dest, destlen |-> destlen,
                 fail |-> AllocStrndup]
           ELSE [ret |-> 1, dest |-> Ptr(OPENSSL_strndup(Deref(src), n)),
                 destlen |-> n, fail |-> AllocNone]
  ELSE [ret |-> 1, dest |-> NULL, destlen |-> 0, fail |-> AllocNone]

\* line 456: the NUL scan over emaillen bytes of email
EmailHasNul(email, emaillen) ==
  email # NULL /\ OPENSSL_memchr(Deref(email), NUL, emaillen)

X509_VERIFY_PARAM_set1_email(param, email, emaillen, oom) ==
  IF EmailHasNul(email, emaillen)
  THEN Res([param EXCEPT !.poison = 1], 0, AllocNone)
  ELSE LET r == int_x509_param_set1_email(param.email, param.emaillen,
                                          email, emaillen, oom)
       IN  IF r.ret = 0
           THEN Res([param EXCEPT !.poison = 1], 0, r.fail)
           ELSE Res([param EXCEPT !.email = r.dest, !.emaillen = r.destlen],
                    1, AllocNone)

\* -------------------------------------------------------------- ip setter

int_x509_param_set1_ip(dest, destlen, src, srclen, oom) ==
  IF src = NULL \/ srclen = 0
  THEN [ret |-> 0, dest |-> dest, destlen |-> destlen, fail |-> AllocNone]
  ELSE IF oom = AllocMemdup
  THEN [ret |-> 0, dest |-> dest, destlen |-> destlen, fail |-> AllocMemdup]
  ELSE [ret |-> 1, dest |-> Ptr(OPENSSL_memdup(Deref(src), srclen)),
        destlen |-> srclen, fail |-> AllocNone]

\* (mutation of IpLenAccepted: every length is handed on)
IpLenAccepted_Any(iplen) == TRUE

\* line 468: the lengths X509_VERIFY_PARAM_set1_ip hands on
IpLenAccepted(iplen) == ~(iplen # 0 /\ iplen # 4 /\ iplen # 16)

X509_VERIFY_PARAM_set1_ip(param, ip, iplen, oom) ==
  IF ~IpLenAccepted(iplen)
  THEN Res([param EXCEPT !.poison = 1], 0, AllocNone)
  ELSE LET r == int_x509_param_set1_ip(param.ip, param.iplen, ip, iplen, oom)
       IN  IF r.ret = 0
           THEN Res([param EXCEPT !.poison = 1], 0, r.fail)
           ELSE Res([param EXCEPT !.ip = r.dest, !.iplen = r.destlen],
                    1, AllocNone)

\* the texts handed to the address parser
IpTexts == {"1.2.3.4", "::1", "example"}

\* the external address parser: the raw bytes of an IPv4 / IPv6 literal, the
\* empty sequence (length 0) for any other text
x509v3_a2i_ipadd(ipasc) ==
  IF ipasc = "1.2.3.4" THEN <<1, 2, 3, 4>>
  ELSE IF ipasc = "::1" THEN [i \in 1..16 |-> IF i = 16 THEN 1 ELSE 0]
  ELSE <<>>

X509_VERIFY_PARAM_set1_ip_asc(param, ipasc, oom) ==
  LET ipout == x509v3_a2i_ipadd(ipasc)
      iplen == Len(ipout)
  IN  IF iplen = 0
      THEN Res(param, 0, AllocNone)
      ELSE X509_VERIFY_PARAM_set1_ip(param, Ptr(ipout), iplen, oom)

\* --------------------------------------------------------------- policies

OBJ_dup(o) == o

sk_ASN1_OBJECT_deep_copy(list) == [i \in 1..Len(list) |-> OBJ_dup(list[i])]

\* (mutation of X509_VERIFY_PARAM_set1_policies: the policy-check bit is set
\* on every successful return)
X509_VERIFY_PARAM_set1_policies_FlagAlways(param, policies, oom) ==
  IF policies = NULL
  THEN Res([param EXCEPT !.policies = NULL,
                         !.flags = @ \cup {X509_V_FLAG_POLICY_CHECK}],
           1, AllocNone)
  ELSE IF oom = AllocPolicies
  THEN Res([param EXCEPT !.policies = NULL], 0, AllocPolicies)
  ELSE Res([param EXCEPT
              !.policies = Ptr(sk_ASN1_OBJECT_deep_copy(Deref(policies))),
              !.flags = @ \cup {X509_V_FLAG_POLICY_CHECK}],
           1, AllocNone)

X509_VERIFY_PARAM_set1_policies(param, policies, oom) ==
  IF policies = NULL
  THEN Res([param EXCEPT !.policies = NULL], 1, AllocNone)
  ELSE IF oom = AllocPolicies
  THEN Res([param EXCEPT !.policies = NULL], 0, AllocPolicies)
  ELSE Res([param EXCEPT
              !.policies = Ptr(sk_ASN1_OBJECT_deep_copy(Deref(policies))),
              !.flags = @ \cup {X509_V_FLAG_POLICY_CHECK}],
           1, AllocNone)

X509_VERIFY_PARAM_add0_policy(param, policy, oom) ==
  LET list == IF param.policies = NULL THEN <<>> ELSE Deref(param.policies)
  IN  IF param.policies = NULL /\ oom = AllocNewNull
      THEN Res(param, 0, AllocNewNull)
      ELSE IF oom = AllocPush
      THEN Res([param EXCEPT !.policies = Ptr(list)], 0, AllocPush)
      ELSE Res([param EXCEPT !.policies = Ptr(Append(list, policy))],
               1, AllocNone)

\* ---------------------------------------------------------- scalar setters

\* the purpose and trust ids the external registries know (the ids of the
\* named profiles)
X509_PURPOSE_SSL_CLIENT == 1

X509_PURPOSE_SSL_SERVER == 2

X509_PURPOSE_SMIME_SIGN == 4

X509_TRUST_SSL_CLIENT == 2

X509_TRUST_SSL_SERVER == 3

X509_TRUST_EMAIL == 4

KnownPurposes ==
  {X509_PURPOSE_SSL_CLIENT, X509_PURPOSE_SSL_SERVER, X509_PURPOSE_SMIME_SIGN}

KnownTrusts == {X509_TRUST_SSL_CLIENT, X509_TRUST_SSL_SERVER, X509_TRUST_EMAIL}

\* X509_PURPOSE_set(&param->purpose, purpose): fails on an unknown id
X509_VERIFY_PARAM_set_purpose(param, purpose) ==
  IF purpose \in KnownPurposes
  THEN Res([param EXCEPT !.purpose = purpose], 1, AllocNone)
  ELSE Res(param, 0, AllocNone)

\* X509_TRUST_set(&param->trust, trust): fails on an unknown id
X509_VERIFY_PARAM_set_trust(param, trust) ==
  IF trust \in KnownTrusts
  THEN Res([param EXCEPT !.trust = trust], 1, AllocNone)
  ELSE Res(param, 0, AllocNone)

X509_VERIFY_PARAM_set_depth(param, depth) ==
  Res([param EXCEPT !.depth = depth], 1, AllocNone)

X509_VERIFY_PARAM_set_time_posix(param, t) ==
  Res([param EXCEPT !.check_time = t,
                    !.flags = @ \cup {X509_V_FLAG_USE_CHECK_TIME}],
      1, AllocNone)

X509_VERIFY_PARAM_set_flags(param, flags) ==
  Res([param EXCEPT
         !.flags = @ \cup flags \cup
                   (IF flags \cap X509_V_FLAG_POLICY_MASK # {}
                    THEN {X509_V_FLAG_POLICY_CHECK}
                    ELSE {})],
      1, AllocNone)

X509_VERIFY_PARAM_clear_flags(param, flags) ==
  Res([param EXCEPT !.flags = @ \ flags], 1, AllocNone)

\* ------------------------------------------------------------ inheritance

\* (mutation of EffectiveInhFlags: the mode bits of src are not read)
EffectiveInhFlags_DestOnly(dest, src) == dest.inh_flags

\* line 199: inh_flags = dest->inh_flags | src->inh_flags
EffectiveInhFlags(dest, src) == dest.inh_flags \cup src.inh_flags

\* (mutation of InheritOnce: the once step moved behind the locked return)
InheritOnce_AfterLocked(dest, inh_flags) ==
  IF X509_VP_FLAG_ONCE \in inh_flags /\ X509_VP_FLAG_LOCKED \notin inh_flags
  THEN [dest EXCEPT !.inh_flags = {}]
  ELSE dest

\* lines 201-203
InheritOnce(dest, inh_flags) ==
  IF X509_VP_FLAG_ONCE \in inh_flags
  THEN [dest EXCEPT !.inh_flags = {}]
  ELSE dest

\* (mutation of test_x509_verify_param_copy: to_default is not read, so src
\* is copied into unset fields only)
test_x509_verify_param_copy_UnsetOnly(to_overwrite, to_default, srcfield, destfield, def) ==
  to_overwrite \/ (srcfield # def /\ destfield = def)

\* the macro that tests whether a field is copied from src to dest
test_x509_verify_param_copy(to_overwrite, to_default, srcfield, destfield, def) ==
  to_overwrite \/ (srcfield # def /\ (to_default \/ destfield = def))

\* the macro that tests and copies a field: the value of dest->field after it
x509_verify_param_copy(to_overwrite, to_default, srcfield, destfield, def) ==
  IF test_x509_verify_param_copy(to_overwrite, to_default, srcfield,
                                 destfield, def)
  THEN srcfield
  ELSE destfield

\* (mutation of InheritScalars: depth tested against 0, the sentinel of the
\* other two fields)
InheritScalars_DepthZero(dest, src, to_default, to_overwrite) ==
  [dest EXCEPT
     !.purpose = x509_verify_param_copy(to_overwrite, to_default,
                                        src.purpose, dest.purpose, 0),
     !.trust = x509_verify_param_copy(to_overwrite, to_default,
                                      src.trust, dest.trust, 0),
     !.depth = x509_verify_param_copy(to_overwrite, to_default,
                                      src.depth, dest.depth, 0)]

\* lines 221-223
InheritScalars(dest, src, to_default, to_overwrite) ==
  [dest EXCEPT
     !.purpose = x509_verify_param_copy(to_overwrite, to_default,
                                        src.purpose, dest.purpose, 0),
     !.trust = x509_verify_param_copy(to_overwrite, to_default,
                                      src.trust, dest.trust, 0),
     !.depth = x509_verify_param_copy(to_overwrite, to_default,
                                      src.depth, dest.depth, -1)]

\* (mutation of InheritCheckTime: the use-check-time bit of dest is not read)
InheritCheckTime_Always(dest, src, to_overwrite) ==
  [dest EXCEPT !.check_time = src.check_time,
               !.flags = @ \ {X509_V_FLAG_USE_CHECK_TIME}]

\* lines 227-231
InheritCheckTime(dest, src, to_overwrite) ==
  IF to_overwrite \/ X509_V_FLAG_USE_CHECK_TIME \notin dest.flags
  THEN [dest EXCEPT !.check_time = src.check_time,
                    !.flags = @ \ {X509_V_FLAG_USE_CHECK_TIME}]
  ELSE dest

\* lines 233-237
InheritFlags(dest, src, inh_flags) ==
  LET reset == IF X509_VP_FLAG_RESET_FLAGS \in inh_flags
               THEN [dest EXCEPT !.flags = {}]
               ELSE dest
  IN  [reset EXCEPT !.flags = @ \cup src.flags]

\* lines 239-243
InheritPolicies(dest, src, to_default, to_overwrite, oom) ==
  IF test_x509_verify_param_copy(to_overwrite, to_default, src.policies,
                                 dest.policies, NULL)
  THEN X509_VERIFY_PARAM_set1_policies(dest, src.policies, oom)
  ELSE Res(dest, 1, AllocNone)

OPENSSL_strdup(str) == OPENSSL_strndup(str, strlen(str))

\* (mutation of sk_OPENSSL_STRING_deep_copy: the last string is not copied)
sk_OPENSSL_STRING_deep_copy_Short(list) ==
  [i \in 1..(Len(list) - 1) |-> OPENSSL_strdup(list[i])]

sk_OPENSSL_STRING_deep_copy(list) ==
  [i \in 1..Len(list) |-> OPENSSL_strdup(list[i])]

\* (mutation of InheritHosts: hostflags is copied whenever the hosts field is
\* selected, also when src has no list)
InheritHosts_FlagsAlways(dest, src, to_default, to_overwrite, oom) ==
  IF test_x509_verify_param_copy(to_overwrite, to_default, src.hosts,
                                 dest.hosts, NULL)
  THEN LET freed == [dest EXCEPT !.hosts = NULL, !.hostflags = src.hostflags]
       IN  IF src.hosts = NULL
           THEN Res(freed, 1, AllocNone)
           ELSE IF oom = AllocHosts
           THEN Res(freed, 0, AllocHosts)
           ELSE Res([freed EXCEPT
                       !.hosts = Ptr(sk_OPENSSL_STRING_deep_copy(Deref(src.hosts)))],
                    1, AllocNone)
  ELSE Res(dest, 1, AllocNone)

\* lines 246-259
InheritHosts(dest, src, to_default, to_overwrite, oom) ==
  IF test_x509_verify_param_copy(to_overwrite, to_default, src.hosts,
                                 dest.hosts, NULL)
  THEN LET freed == [dest EXCEPT !.hosts = NULL]
       IN  IF src.hosts = NULL
           THEN Res(freed, 1, AllocNone)
           ELSE IF oom = AllocHosts
           THEN Res(freed, 0, AllocHosts)
           ELSE Res([freed EXCEPT
                       !.hosts = Ptr(sk_OPENSSL_STRING_deep_copy(Deref(src.hosts))),
                       !.hostflags = src.hostflags],
                    1, AllocNone)
  ELSE Res(dest, 1, AllocNone)

\* lines 261-265
InheritEmail(dest, src, to_default, to_overwrite, oom) ==
  IF test_x509_verify_param_copy(to_overwrite, to_default, src.email,
                                 dest.email, NULL)
  THEN X509_VERIFY_PARAM_set1_email(dest, src.email, src.emaillen, oom)
  ELSE Res(dest, 1, AllocNone)

\* lines 267-271
InheritIp(dest, src, to_default, to_overwrite, oom) ==
  IF test_x509_verify_param_copy(to_overwrite, to_default, src.ip,
                                 dest.ip, NULL)
  THEN X509_VERIFY_PARAM_set1_ip(dest, src.ip, src.iplen, oom)
  ELSE Res(dest, 1, AllocNone)

\* line 273
InheritPoison(dest, src) == [dest EXCEPT !.poison = src.poison]

\* lines 209-275: the merge of an unlocked call, dest being the store after
\* the once step
InheritFields(dest, src, inh_flags, oom) ==
  LET to_default == X509_VP_FLAG_DEFAULT \in inh_flags
      to_overwrite == X509_VP_FLAG_OVERWRITE \in inh_flags
      d1 == InheritScalars(dest, src, to_default, to_overwrite)
      d2 == InheritCheckTime(d1, src, to_overwrite)
      d3 == InheritFlags(d2, src, inh_flags)
      r4 == InheritPolicies(d3, src, to_default, to_overwrite, oom)
      r5 == InheritHosts(r4.param, src, to_default, to_overwrite, oom)
      r6 == InheritEmail(r5.param, src, to_default, to_overwrite, oom)
      r7 == InheritIp(r6.param, src, to_default, to_overwrite, oom)
  IN  IF r4.ret = 0 THEN r4
      ELSE IF r5.ret = 0 THEN r5
      ELSE IF r6.ret = 0 THEN r6
      ELSE IF r7.ret = 0 THEN r7
      ELSE Res(InheritPoison(r7.param, src), 1, AllocNone)

\* src is NULL or Ptr(store)
X509_VERIFY_PARAM_inherit(dest, src, oom) ==
  IF src = NULL
  THEN Res(dest, 1, AllocNone)
  ELSE LET inh_flags == EffectiveInhFlags(dest, Deref(src))
           d0 == InheritOnce(dest, inh_flags)
       IN  IF X509_VP_FLAG_LOCKED \in inh_flags
           THEN Res(d0, 1, AllocNone)
           ELSE InheritFields(d0, Deref(src), inh_flags, oom)

\* (mutation of RestoreInhFlags: to->inh_flags is not put back)
RestoreInhFlags_Kept(r, save_flags) == r

\* lines 280-285: the result of the inherit call with to->inh_flags put back
RestoreInhFlags(r, save_flags) ==
  Res([r.param EXCEPT !.inh_flags = save_flags], r.ret, r.fail)

X509_VERIFY_PARAM_set1(to, from, oom) ==
  LET save_flags == to.inh_flags
      marked == [to EXCEPT !.inh_flags = @ \cup {X509_VP_FLAG_DEFAULT}]
  IN  RestoreInhFlags(X509_VERIFY_PARAM_inherit(marked, from, oom), save_flags)

\* ------------------------------------------- the list operations on the heap

\* The operations that allocate, copy and free the host and policies lists,
\* with hosts and policies holding the address of a list cell.  A is the
\* region the allocations of the call are served from.  An allocation fails
\* when it is the one named by oom or when the region is exhausted.

\* the result of a call: the heap and the store after it, the returned int,
\* and the allocation that failed in it
MRes(m, param, ret, fail) ==
  [mem |-> m, param |-> param, ret |-> ret, fail |-> fail]

\* sk_..._pop_free: every element of the list is freed, then the list
mem_sk_pop_free(m, q) ==
  IF q = NULL THEN m ELSE Release(m, {Deref(q)} \cup Range(m[Deref(q)].val))

\* the copy an element duplicator makes: OPENSSL_strdup of a string, OBJ_dup
\* of an object identifier
mem_dup(cell) ==
  IF cell.kind = "str"
  THEN Cell("str", OPENSSL_strdup(cell.val))
  ELSE Cell(cell.kind, [i \in 1..Len(cell.val) |-> OBJ_dup(cell.val[i])])

\* sk_..._deep_copy of the list at q: a new list of new copies of the
\* elements, as [mem, ptr]; on failure every copy made so far is freed again
\* and ptr is NULL
mem_sk_deep_copy(m, q, A) ==
  LET elems == m[Deref(q)].val
      n == Len(elems)
      a == Lowest(Unused(m, A), n + 1)
  IN  IF Cardinality(Unused(m, A)) < n + 1
      THEN [mem |-> m, ptr |-> NULL]
      ELSE [mem |->
              [x \in Addr |->
                 IF x = a[1]
                 THEN Cell("stack", SubSeq(a, 2, n + 1))
                 ELSE IF \E i \in 1..n : a[i + 1] = x
                 THEN mem_dup(m[elems[CHOOSE i \in 1..n : a[i + 1] = x]])
                 ELSE m[x]],
            ptr |-> Ptr(a[1])]

mem_int_x509_param_set_hosts(m, A, param, mode, name, namelen, oom) ==
  LET n == IF name # NULL /\ namelen = 0 THEN strlen(Deref(name)) ELSE namelen
      m1 == IF mode = SET_HOST /\ param.hosts # NULL
            THEN mem_sk_pop_free(m, param.hosts)
            ELSE m
      cleared == ClearHosts(param, mode)
      copy == OPENSSL_malloc(m1, A)
      m2 == Store(m1, copy, Cell("str", OPENSSL_strndup(Deref(name), n)))
      stack == IF cleared.hosts = NULL
               THEN OPENSSL_malloc(m2, A)
               ELSE Deref(cleared.hosts)
      m3 == IF cleared.hosts = NULL
            THEN Store(m2, stack, Cell("stack", <<>>))
            ELSE m2
  IN  IF name # NULL /\ OPENSSL_memchr(Deref(name), NUL, n)
      THEN MRes(m, param, 0, AllocNone)
      ELSE IF name = NULL \/ n = 0
      THEN MRes(m1, cleared, 1, AllocNone)
      ELSE IF oom = AllocStrndup \/ copy = NoAddr
      THEN MRes(m1, cleared, 0, AllocStrndup)
      ELSE IF cleared.hosts = NULL /\ (oom = AllocNewNull \/ stack = NoAddr)
      THEN MRes(m1, cleared, 0, AllocNewNull)
      ELSE IF oom = AllocPush
      THEN IF Len(m3[stack].val) = 0
           THEN MRes(Release(m3, {copy, stack}),
                     [cleared EXCEPT !.hosts = NULL], 0, AllocPush)
           ELSE MRes(Release(m3, {copy}),
                     [cleared EXCEPT !.hosts = Ptr(stack)], 0, AllocPush)
      ELSE MRes(Store(m3, stack, Cell("stack", Append(m3[stack].val, copy))),
                [cleared EXCEPT !.hosts = Ptr(stack)], 1, AllocNone)

mem_PoisonOnFailure(r) ==
  IF r.ret = 0
  THEN MRes(r.mem, [r.param EXCEPT !.poison = 1], 0, r.fail)
  ELSE r

mem_X509_VERIFY_PARAM_set1_host(m, A, param, name, namelen, oom) ==
  mem_PoisonOnFailure(
    mem_int_x509_param_set_hosts(m, A, param, SET_HOST, name, namelen, oom))

mem_X509_VERIFY_PARAM_add1_host(m, A, param, name, namelen, oom) ==
  mem_PoisonOnFailure(
    mem_int_x509_param_set_hosts(m, A, param, ADD_HOST, name, namelen, oom))

\* policy is the address of the object the caller hands over
mem_X509_VERIFY_PARAM_add0_policy(m, A, param, policy, oom) ==
  LET stack == IF param.policies = NULL
               THEN OPENSSL_malloc(m, A)
               ELSE Deref(param.policies)
      m1 == IF param.policies = NULL
            THEN Store(m, stack, Cell("stack", <<>>))
            ELSE m
  IN  IF param.policies = NULL /\ (oom = AllocNewNull \/ stack = NoAddr)
      THEN MRes(m, param, 0, AllocNewNull)
      ELSE IF oom = AllocPush
      THEN MRes(m1, [param EXCEPT !.policies = Ptr(stack)], 0, AllocPush)
      ELSE MRes(Store(m1, stack,
                      Cell("stack", Append(m1[stack].val, policy))),
                [param EXCEPT !.policies = Ptr(stack)], 1, AllocNone)

\* policies is NULL or the address of the list to copy
mem_X509_VERIFY_PARAM_set1_policies(m, A, param, policies, oom) ==
  LET m1 == mem_sk_pop_free(m, param.policies)
      c == mem_sk_deep_copy(m1, policies, A)
  IN  IF policies = NULL
      THEN MRes(m1, [param EXCEPT !.policies = NULL], 1, AllocNone)
      ELSE IF oom = AllocPolicies \/ c.ptr = NULL
      THEN MRes(m1, [param EXCEPT !.policies = NULL], 0, AllocPolicies)
      ELSE MRes(c.mem,
                [param EXCEPT !.policies = c.ptr,
                              !.flags = @ \cup {X509_V_FLAG_POLICY_CHECK}],
                1, AllocNone)

\* lines 239-243
mem_InheritPolicies(m, A, dest, src, to_default, to_overwrite, oom) ==
  IF test_x509_verify_param_copy(to_overwrite, to_default, src.policies,
                                 dest.policies, NULL)
  THEN mem_X509_VERIFY_PARAM_set1_policies(m, A, dest, src.policies, oom)
  ELSE MRes(m, dest, 1, AllocNone)

\* (mutation of mem_InheritHosts: dest->hosts is given the list of src, not a
\* copy of it)
mem_InheritHosts_Shared(m, A, dest, src, to_default, to_overwrite, oom) ==
  IF test_x509_verify_param_copy(to_overwrite, to_default, src.hosts,
                                 dest.hosts, NULL)
  THEN LET m1 == mem_sk_pop_free(m, dest.hosts)
           freed == [dest EXCEPT !.hosts = NULL]
       IN  IF src.hosts = NULL
           THEN MRes(m1, freed, 1, AllocNone)
           ELSE MRes(m1, [freed EXCEPT !.hosts = src.hosts,
                                       !.hostflags = src.hostflags],
                     1, AllocNone)
  ELSE MRes(m, dest, 1, AllocNone)

\* lines 246-259
mem_InheritHosts(m, A, dest, src, to_default, to_overwrite, oom) ==
  IF test_x509_verify_param_copy(to_overwrite, to_default, src.hosts,
                                 dest.hosts, NULL)
  THEN LET m1 == mem_sk_pop_free(m, dest.hosts)
           freed == [dest EXCEPT !.hosts = NULL]
           c == mem_sk_deep_copy(m1, src.hosts, A)
       IN  IF src.hosts = NULL
           THEN MRes(m1, freed, 1, AllocNone)
           ELSE IF oom = AllocHosts \/ c.ptr = NULL
           THEN MRes(m1, freed, 0, AllocHosts)
           ELSE MRes(c.mem,
                     [freed EXCEPT !.hosts = c.ptr,
                                   !.hostflags = src.hostflags],
                     1, AllocNone)
  ELSE MRes(m, dest, 1, AllocNone)

\* lines 209-275, the heap threaded through the two list copies
mem_InheritFields(m, A, dest, src, inh_flags, oom) ==
  LET to_default == X509_VP_FLAG_DEFAULT \in inh_flags
      to_overwrite == X509_VP_FLAG_OVERWRITE \in inh_flags
      d1 == InheritScalars(dest, src, to_default, to_overwrite)
      d2 == InheritCheckTime(d1, src, to_overwrite)
      d3 == InheritFlags(d2, src, inh_flags)
      r4 == mem_InheritPolicies(m, A, d3, src, to_default, to_overwrite, oom)
      r5 == mem_InheritHosts(r4.mem, A, r4.param, src, to_default,
                             to_overwrite, oom)
      r6 == InheritEmail(r5.param, src, to_default, to_overwrite, oom)
      r7 == InheritIp(r6.param, src, to_default, to_overwrite, oom)
  IN  IF r4.ret = 0 THEN r4
      ELSE IF r5.ret = 0 THEN r5
      ELSE IF r6.ret = 0 THEN MRes(r5.mem, r6.param, 0, r6.fail)
      ELSE IF r7.ret = 0 THEN MRes(r5.mem, r7.param, 0, r7.fail)
      ELSE MRes(r5.mem, InheritPoison(r7.param, src), 1, AllocNone)

mem_X509_VERIFY_PARAM_inherit(m, A, dest, src, oom) ==
  IF src = NULL
  THEN MRes(m, dest, 1, AllocNone)
  ELSE LET inh_flags == EffectiveInhFlags(dest, Deref(src))
           d0 == InheritOnce(dest, inh_flags)
       IN  IF X509_VP_FLAG_LOCKED \in inh_flags
           THEN MRes(m, d0, 1, AllocNone)
           ELSE mem_InheritFields(m, A, d0, Deref(src), inh_flags, oom)

mem_X509_VERIFY_PARAM_set1(m, A, to, from, oom) ==
  LET save_flags == to.inh_flags
      marked == [to EXCEPT !.inh_flags = @ \cup {X509_VP_FLAG_DEFAULT}]
      r == mem_X509_VERIFY_PARAM_inherit(m, A, marked, from, oom)
  IN  MRes(r.mem, [r.param EXCEPT !.inh_flags = save_flags], r.ret, r.fail)

\* X509_VERIFY_PARAM_free: the heap after the lists of the store are freed
mem_X509_VERIFY_PARAM_free(m, param) ==
  mem_sk_pop_free(mem_sk_pop_free(m, param.policies), param.hosts)

\* --------------------------------------------------------- named profiles

\* vpm_empty_id: hosts, hostflags, email, emaillen, ip, iplen, poison
kDefaultParam ==
  [check_time |-> 0, inh_flags |-> {}, flags |-> {X509_V_FLAG_TRUSTED_FIRST},
   purpose |-> 0, trust |-> 0, depth |-> 100, policies |-> NULL,
   hosts |-> NULL, hostflags |-> 0, email |-> NULL, emaillen |-> 0,
   ip |-> NULL, iplen |-> 0, poison |-> 0]

kSMIMESignParam ==
  [check_time |-> 0, inh_flags |-> {}, flags |-> {},
   purpose |-> X509_PURPOSE_SMIME_SIGN, trust |-> X509_TRUST_EMAIL,
   depth |-> -1, policies |-> NULL,
   hosts |-> NULL, hostflags |-> 0, email |-> NULL, emaillen |-> 0,
   ip |-> NULL, iplen |-> 0, poison |-> 0]

kSSLClientParam ==
  [check_time |-> 0, inh_flags |-> {}, flags |-> {},
   purpose |-> X509_PURPOSE_SSL_CLIENT, trust |-> X509_TRUST_SSL_CLIENT,
   depth |-> -1, policies |-> NULL,
   hosts |-> NULL, hostflags |-> 0, email |-> NULL, emaillen |-> 0,
   ip |-> NULL, iplen |-> 0, poison |-> 0]

kSSLServerParam ==
  [check_time |-> 0, inh_flags |-> {}, flags |-> {},
   purpose |-> X509_PURPOSE_SSL_SERVER, trust |-> X509_TRUST_SSL_SERVER,
   depth |-> -1, policies |-> NULL,
   hosts |-> NULL, hostflags |-> 0, email |-> NULL, emaillen |-> 0,
   ip |-> NULL, iplen |-> 0, poison |-> 0]

\* a pointer to the profile of that name, NULL for any other name
X509_VERIFY_PARAM_lookup(name) ==
  IF name = "default" THEN Ptr(kDefaultParam)
  ELSE IF name = "pkcs7" THEN Ptr(kSMIMESignParam)
  ELSE IF name = "smime_sign" THEN Ptr(kSMIMESignParam)
  ELSE IF name = "ssl_client" THEN Ptr(kSSLClientParam)
  ELSE IF name = "ssl_server" THEN Ptr(kSSLServerParam)
  ELSE NULL

\* ----------------------------------------------------------------- inputs

Chars == {NUL, CharA}

\* the caller's name and email buffers
Buffers == UNION {[1..n -> Chars] : n \in 0..MaxLen}

\* (name, namelen): a null name, or a buffer and a length within it
NameArgs ==
  {<<NULL, n>> : n \in 0..1} \cup
  UNION {{<<Ptr(b), n>> : n \in 0..Len(b)} : b \in Buffers}

\* (email, emaillen): the NUL scan of line 456 reads emaillen bytes of email,
\* so a null email comes with length 0 only
EmailArgs ==
  {<<NULL, 0>>} \cup UNION {{<<Ptr(b), n>> : n \in 0..Len(b)} : b \in Buffers}

\* a few calls of each kind, for the runs that explore sequences of calls:
\* null, empty, "a" with its length detected, "aa", and "a" with its NUL
\* inside the given length
NameArgsFew ==
  {<<NULL, 0>>, <<Ptr(<<>>), 0>>, <<Ptr(<<CharA>>), 0>>,
   <<Ptr(<<CharA, CharA>>), 2>>, <<Ptr(<<CharA, NUL>>), 2>>}

EmailArgsFew ==
  {<<NULL, 0>>, <<Ptr(<<>>), 0>>, <<Ptr(<<CharA>>), 1>>,
   <<Ptr(<<CharA, NUL>>), 2>>}

IpBuffers == {x509v3_a2i_ipadd("1.2.3.4"), x509v3_a2i_ipadd("::1")}

\* (ip, iplen): a null ip, or a buffer and a length within it
IpArgs ==
  {<<NULL, n>> : n \in {0, 4}} \cup
  UNION {{<<Ptr(b), n>> : n \in {m \in {0, 4, 5, 16} : m <= Len(b)}} :
         b \in IpBuffers}

StoreIds == {1, 2}

\* the src of a merge: 0 is the null pointer, i the store p[i]
SrcOf(s) == IF s = 0 THEN NULL ELSE Ptr(p[s])

HostAllocs == {AllocNone, AllocStrndup, AllocNewNull, AllocPush}

EmailAllocs == {AllocNone, AllocStrndup}

IpAllocs == {AllocNone, AllocMemdup}

MergeAllocs ==
  {AllocNone, AllocPolicies, AllocHosts, AllocStrndup, AllocMemdup}

\* ---------------------------------------------------------------- actions

\* last describes the latest call: the operation, the store d it was called
\* on, the src s of a merge, the arguments of a setter, the returned int and
\* the allocation that failed in it; pre is store d as it was before the call
NoCall ==
  [op |-> "none", d |-> 0, s |-> 0, arg |-> <<>>, ret |-> 1,
   fail |-> AllocNone]

\* a call on store d that returned r
Call(op, d, s, arg, r) ==
  /\ p' = [p EXCEPT ![d] = r.param]
  /\ mem' = mem
  /\ pre' = p[d]
  /\ last' = [op |-> op, d |-> d, s |-> s, arg |-> arg, ret |-> r.ret,
              fail |-> r.fail]

\* Each action is a call on store d with its arguments drawn from Args and the
\* failing allocation from Allocs.

SetHost(d, Args, Allocs) ==
  \E a \in Args, oom \in Allocs :
    LET r == X509_VERIFY_PARAM_set1_host(p[d], a[1], a[2], oom)
    IN  /\ Len(HostList(r.param)) <= MaxHosts
        /\ Call("SetHost", d, 0, a, r)

AddHost(d, Args, Allocs) ==
  \E a \in Args, oom \in Allocs :
    LET r == X509_VERIFY_PARAM_add1_host(p[d], a[1], a[2], oom)
    IN  /\ Len(HostList(r.param)) <= MaxHosts
        /\ Call("AddHost", d, 0, a, r)

SetEmail(d, Args, Allocs) ==
  \E a \in Args, oom \in Allocs :
    Call("SetEmail", d, 0, a,
         X509_VERIFY_PARAM_set1_email(p[d], a[1], a[2], oom))

SetIP(d, Args, Allocs) ==
  \E a \in Args, oom \in Allocs :
    Call("SetIP", d, 0, a, X509_VERIFY_PARAM_set1_ip(p[d], a[1], a[2], oom))

SetIPFromText(d, Args, Allocs) ==
  \E t \in Args, oom \in Allocs :
    Call("SetIPFromText", d, 0, <<t>>,
         X509_VERIFY_PARAM_set1_ip_asc(p[d], t, oom))

Inherit(d, s, Allocs) ==
  \E oom \in Allocs :
    Call("Inherit", d, s, <<>>, X509_VERIFY_PARAM_inherit(p[d], SrcOf(s), oom))

AssignFrom(d, s, Allocs) ==
  \E oom \in Allocs :
    Call("AssignFrom", d, s, <<>>, X509_VERIFY_PARAM_set1(p[d], SrcOf(s), oom))

\* a merge from the named profile the lookup returns (a null src for a name
\* it does not know)
InheritProfile(d, Names, Allocs) ==
  \E name \in Names, oom \in Allocs :
    Call("InheritProfile", d, 0, <<name>>,
         X509_VERIFY_PARAM_inherit(p[d], X509_VERIFY_PARAM_lookup(name), oom))

AssignProfile(d, Names, Allocs) ==
  \E name \in Names, oom \in Allocs :
    Call("AssignProfile", d, 0, <<name>>,
         X509_VERIFY_PARAM_set1(p[d], X509_VERIFY_PARAM_lookup(name), oom))

SetPolicies(d, Args, Allocs) ==
  \E a \in Args, oom \in Allocs :
    Call("SetPolicies", d, 0, <<a>>,
         X509_VERIFY_PARAM_set1_policies(p[d], a, oom))

AddPolicy(d, Args, Allocs) ==
  \E a \in Args, oom \in Allocs :
    LET r == X509_VERIFY_PARAM_add0_policy(p[d], a, oom)
    IN  /\ r.param.policies # NULL => Len(Deref(r.param.policies)) <= MaxPolicies
        /\ Call("AddPolicy", d, 0, <<a>>, r)

\* The same calls on the heap.

\* the region the calls on store d allocate from: one half of the heap each
Region(d) ==
  {a \in Addr : (d - 1) * (MaxAddr \div 2) < a /\ a <= d * (MaxAddr \div 2)}

\* a call on store d that left the heap and the store as in r; of the call
\* itself only its name, its store and its src are recorded
MCall(op, d, s, arg, r) ==
  /\ p' = [p EXCEPT ![d] = r.param]
  /\ mem' = r.mem
  /\ pre' = pre
  /\ last' = [NoCall EXCEPT !.op = op, !.d = d, !.s = s]

MSetHost(d, Args, Allocs) ==
  \E a \in Args, oom \in Allocs :
    LET r == mem_X509_VERIFY_PARAM_set1_host(mem, Region(d), p[d], a[1],
                                             a[2], oom)
    IN  MCall("SetHost", d, 0, a, r)

MAddHost(d, Args, Allocs) ==
  \E a \in Args, oom \in Allocs :
    LET r == mem_X509_VERIFY_PARAM_add1_host(mem, Region(d), p[d], a[1],
                                             a[2], oom)
    IN  /\ r.param.hosts # NULL =>
             Len(r.mem[Deref(r.param.hosts)].val) <= MaxHosts
        /\ MCall("AddHost", d, 0, a, r)

\* the caller creates the object for oid and hands it over; it frees the
\* object again when the call fails
MAddPolicy(d, Args, Allocs) ==
  \E oid \in Args, oom \in Allocs :
    LET policy == OPENSSL_malloc(mem, Region(d))
        r == mem_X509_VERIFY_PARAM_add0_policy(
               Store(mem, policy, Cell("oid", <<oid>>)), Region(d), p[d],
               policy, oom)
    IN  /\ policy # NoAddr
        /\ r.param.policies # NULL =>
             Len(r.mem[Deref(r.param.policies)].val) <= MaxPolicies
        /\ MCall("AddPolicy", d, 0, <<oid>>,
                 IF r.ret = 0
                 THEN MRes(Release(r.mem, {policy}), r.param, 0, r.fail)
                 ELSE r)

\* SetPolicies with no list (s = 0), or with the list of store s
MSetPolicies(d, s, Allocs) ==
  \E oom \in Allocs :
    MCall("SetPolicies", d, s, <<>>,
          mem_X509_VERIFY_PARAM_set1_policies(
            mem, Region(d), p[d], IF s = 0 THEN NULL ELSE p[s].policies, oom))

MInherit(d, s, Allocs) ==
  \E oom \in Allocs :
    MCall("Inherit", d, s, <<>>,
          mem_X509_VERIFY_PARAM_inherit(mem, Region(d), p[d], SrcOf(s), oom))

MAssignFrom(d, s, Allocs) ==
  \E oom \in Allocs :
    MCall("AssignFrom", d, s, <<>>,
          mem_X509_VERIFY_PARAM_set1(mem, Region(d), p[d], SrcOf(s), oom))

\* the store is destroyed and a new one created in its place
MFreeAndNew(d) ==
  MCall("FreeAndNew", d, 0, <<>>,
        MRes(mem_X509_VERIFY_PARAM_free(mem, p[d]), X509_VERIFY_PARAM_new, 1,
             AllocNone))

\* ----------------------------------------------------------- specifications

\* Spec: two stores as X509_VERIFY_PARAM_new leaves them; store 1 is driven
\* through any sequence of identity setters and of merges from store 2 or
\* from a null src.
Init ==
  /\ p = [i \in StoreIds |-> X509_VERIFY_PARAM_new]
  /\ pre = p[1]
  /\ last = NoCall
  /\ mem = EmptyMem

Next ==
  \/ SetHost(1, NameArgsFew, HostAllocs)
  \/ AddHost(1, NameArgsFew, HostAllocs)
  \/ SetEmail(1, EmailArgsFew, EmailAllocs)
  \/ SetIP(1, IpArgs, IpAllocs)
  \/ SetIPFromText(1, IpTexts, IpAllocs)
  \/ \E s \in {0, 2} : Inherit(1, s, MergeAllocs)
  \/ \E s \in {0, 2} : AssignFrom(1, s, MergeAllocs)

Spec == Init /\ [][Next]_vars

\* ------------------------------------------------ the stores calls start from

\* The specifications below apply one call to every store of a bounded set
\* (and every src of one).  Each such store is one the setters build from
\* X509_VERIFY_PARAM_new: the scalars by X509_VERIFY_PARAM_set_purpose,
\* _set_trust and _set_depth, the policies by _add0_policy, the hosts by
\* _add1_host, email and ip by _set1_email and _set1_ip, poison by a rejected
\* setter call; inh_flags is a plain field the callers assign.

Strings(lo) == UNION {[1..n -> {CharA}] : n \in lo..MaxLen}

HostLists == UNION {[1..n -> Strings(1)] : n \in 1..MaxHosts}

HostsValues == {NULL} \cup {Ptr(l) : l \in HostLists}

EmailValues == {NULL} \cup {Ptr(e) : e \in Strings(0)}

IpValues == {NULL} \cup {Ptr(b) : b \in IpBuffers}

PtrLen(q) == IF q = NULL THEN 0 ELSE Len(Deref(q))

WithIdentity(param, hosts, email, ip, poison) ==
  [param EXCEPT !.hosts = hosts, !.email = email, !.emaillen = PtrLen(email),
                !.ip = ip, !.iplen = PtrLen(ip), !.poison = poison]

IdentityStores ==
  {WithIdentity(X509_VERIFY_PARAM_new, h, e, i, po) :
     h \in HostsValues, e \in EmailValues, i \in IpValues, po \in {0, 1}}

WithInhFlags(param, f) == [param EXCEPT !.inh_flags = f]

ScalarStores ==
  {[X509_VERIFY_PARAM_new EXCEPT
      !.purpose = a, !.trust = b, !.depth = c, !.inh_flags = f] :
     a \in {0, X509_PURPOSE_SSL_CLIENT, X509_PURPOSE_SSL_SERVER},
     b \in {0, X509_TRUST_SSL_CLIENT},
     c \in {-1, 0, 100},
     f \in SUBSET InhBits}

\* policies: absent, or the list of the OIDs 1 and 2
PoliciesValues == {NULL, Ptr(<<1, 2>>)}

\* every src an assignment is made from: scalars, policies, identity and
\* inh_flags each over its values
SrcStores ==
  {[WithIdentity(X509_VERIFY_PARAM_new, h, e, i, 0) EXCEPT
      !.purpose = a, !.trust = b, !.depth = c, !.policies = po,
      !.inh_flags = f] :
     a \in {0, X509_PURPOSE_SSL_CLIENT},
     b \in {0, X509_TRUST_SSL_CLIENT},
     c \in {-1, 100},
     po \in PoliciesValues,
     h \in HostsValues, e \in EmailValues, i \in IpValues,
     f \in SUBSET InhBits}

\* Four configurations, each the result of the setter calls written here.

\* every field configured
ConfigA ==
  LET s1 == X509_VERIFY_PARAM_set_purpose(X509_VERIFY_PARAM_new,
                                          X509_PURPOSE_SSL_CLIENT).param
      s2 == X509_VERIFY_PARAM_set_trust(s1, X509_TRUST_SSL_CLIENT).param
      s3 == X509_VERIFY_PARAM_set_depth(s2, 100).param
      s4 == X509_VERIFY_PARAM_set_time_posix(s3, 1).param
      s5 == X509_VERIFY_PARAM_add0_policy(s4, 1, AllocNone).param
      s6 == X509_VERIFY_PARAM_set1_host(s5, Ptr(<<CharA>>), 0, AllocNone).param
      s7 == X509_VERIFY_PARAM_set_hostflags(s6, 1).param
      s8 == X509_VERIFY_PARAM_set1_email(s7, Ptr(<<CharA>>), 1, AllocNone).param
  IN  X509_VERIFY_PARAM_set1_ip(s8, Ptr(x509v3_a2i_ipadd("1.2.3.4")), 4,
                                AllocNone).param

\* every field configured to another value, and a rejected SetIP at the end
ConfigB ==
  LET s1 == X509_VERIFY_PARAM_set_purpose(X509_VERIFY_PARAM_new,
                                          X509_PURPOSE_SSL_SERVER).param
      s2 == X509_VERIFY_PARAM_set_trust(s1, X509_TRUST_SSL_SERVER).param
      s3 == X509_VERIFY_PARAM_set_depth(s2, 0).param
      s4 == X509_VERIFY_PARAM_set_time_posix(s3, 2).param
      s5 == X509_VERIFY_PARAM_set1_policies(s4, Ptr(<<2>>), AllocNone).param
      s6 == X509_VERIFY_PARAM_add1_host(s5, Ptr(<<CharA, CharA>>), 0,
                                        AllocNone).param
      s7 == X509_VERIFY_PARAM_add1_host(s6, Ptr(<<CharA>>), 0, AllocNone).param
      s8 == X509_VERIFY_PARAM_set_hostflags(s7, 2).param
      s9 == X509_VERIFY_PARAM_set1_email(s8, Ptr(<<CharA, CharA>>), 0,
                                         AllocNone).param
      s10 == X509_VERIFY_PARAM_set1_ip_asc(s9, "::1", AllocNone).param
  IN  X509_VERIFY_PARAM_set1_ip(s10, Ptr(x509v3_a2i_ipadd("::1")), 5,
                                AllocNone).param

\* a host and an empty email only
ConfigC ==
  LET s1 == X509_VERIFY_PARAM_set1_host(X509_VERIFY_PARAM_new,
                                        Ptr(<<CharA, CharA>>), 2,
                                        AllocNone).param
  IN  X509_VERIFY_PARAM_set1_email(s1, Ptr(<<>>), 0, AllocNone).param

Configs == {X509_VERIFY_PARAM_new, ConfigA, ConfigB, ConfigC}

ModeStores == {WithInhFlags(c, f) : c \in Configs, f \in SUBSET InhBits}

\* no call has been made yet
First == last.op = "none"

\* SpecSetter: one identity-setter call, with every argument and every
\* failing allocation, on every store of IdentityStores.
InitSetter ==
  /\ \E st \in IdentityStores :
       p = [i \in StoreIds |-> IF i = 1 THEN st ELSE X509_VERIFY_PARAM_new]
  /\ pre = p[1]
  /\ last = NoCall
  /\ mem = EmptyMem

NextSetter ==
  \/ First /\ SetHost(1, NameArgs, HostAllocs)
  \/ First /\ AddHost(1, NameArgs, HostAllocs)
  \/ First /\ SetEmail(1, EmailArgs, EmailAllocs)
  \/ First /\ SetIP(1, IpArgs, IpAllocs)
  \/ First /\ SetIPFromText(1, IpTexts, IpAllocs)

SpecSetter == InitSetter /\ [][NextSetter]_vars

\* SpecScalar: one merge into store 1, for every pair of stores that differ
\* in the scalar fields and inh_flags.  No pointer field is set, so no
\* allocation is reached.
InitScalar ==
  /\ p \in [StoreIds -> ScalarStores]
  /\ pre = p[1]
  /\ last = NoCall
  /\ mem = EmptyMem

NextScalar ==
  \/ First /\ \E s \in {0, 2} : Inherit(1, s, {AllocNone})
  \/ First /\ \E s \in {0, 2} : AssignFrom(1, s, {AllocNone})

SpecScalar == InitScalar /\ [][NextScalar]_vars

\* SpecFresh: one merge into a store fresh from X509_VERIFY_PARAM_new, from
\* every src of SrcStores.
InitFresh ==
  /\ \E src \in SrcStores :
       p = [i \in StoreIds |-> IF i = 1 THEN X509_VERIFY_PARAM_new ELSE src]
  /\ pre = p[1]
  /\ last = NoCall
  /\ mem = EmptyMem

NextFresh ==
  \/ First /\ Inherit(1, 2, MergeAllocs)
  \/ First /\ AssignFrom(1, 2, MergeAllocs)

SpecFresh == InitFresh /\ [][NextFresh]_vars

\* SpecMode: one merge into store 1, for every pair of configurations and
\* every inh_flags of either store.
InitMode ==
  /\ p \in [StoreIds -> ModeStores]
  /\ pre = p[1]
  /\ last = NoCall
  /\ mem = EmptyMem

NextMerge ==
  \/ First /\ \E s \in {0, 2} : Inherit(1, s, MergeAllocs)
  \/ First /\ \E s \in {0, 2} : AssignFrom(1, s, MergeAllocs)

SpecMode == InitMode /\ [][NextMerge]_vars

\* SpecPolicy: one policy-setter call, with every argument and every failing
\* allocation, on every store of PolicyStores.
Oids == {1, 2}

\* the lists AddPolicy builds; the empty one is what a failed first push
\* leaves behind (lines 395-403)
PolicyLists == UNION {[1..n -> Oids] : n \in 0..MaxPolicies}

PolicyArgs == {NULL} \cup {Ptr(l) : l \in PolicyLists}

\* flags as X509_VERIFY_PARAM_set_flags leaves them, policies as the policy
\* setters do
PolicyStores ==
  {[X509_VERIFY_PARAM_set_flags(X509_VERIFY_PARAM_new, f).param
      EXCEPT !.policies = po] :
     f \in SUBSET FlagBits, po \in PolicyArgs}

PolicyAllocs == {AllocNone, AllocPolicies, AllocNewNull, AllocPush}

InitPolicy ==
  /\ \E st \in PolicyStores :
       p = [i \in StoreIds |-> IF i = 1 THEN st ELSE X509_VERIFY_PARAM_new]
  /\ pre = p[1]
  /\ last = NoCall
  /\ mem = EmptyMem

NextPolicy ==
  \/ First /\ SetPolicies(1, PolicyArgs, PolicyAllocs)
  \/ First /\ AddPolicy(1, Oids, PolicyAllocs)

SpecPolicy == InitPolicy /\ [][NextPolicy]_vars

\* SpecReach: any sequence of host and ip setter calls on either store, and
\* of merges into store 1 from store 2 and from the named profiles.  Both
\* stores start as X509_VERIFY_PARAM_new leaves them; the caller may have
\* assigned the overwrite bit to the inh_flags of store 2.
ProfileNames == {"default", "nonexistent"}

NameArgsReach ==
  {<<NULL, 0>>, <<Ptr(<<CharA>>), 0>>, <<Ptr(<<CharA, NUL>>), 2>>}

InitReach ==
  /\ \E f \in {{}, {X509_VP_FLAG_OVERWRITE}} :
       p = [i \in StoreIds |->
              IF i = 1 THEN X509_VERIFY_PARAM_new
              ELSE WithInhFlags(X509_VERIFY_PARAM_new, f)]
  /\ pre = p[1]
  /\ last = NoCall
  /\ mem = EmptyMem

\* a null ip, each address with its length, and the lengths 0 and 5
IpArgsReach ==
  {<<NULL, 0>>, <<Ptr(x509v3_a2i_ipadd("1.2.3.4")), 4>>,
   <<Ptr(x509v3_a2i_ipadd("1.2.3.4")), 0>>,
   <<Ptr(x509v3_a2i_ipadd("::1")), 16>>, <<Ptr(x509v3_a2i_ipadd("::1")), 5>>}

NextReach ==
  \/ SetHost(1, NameArgsReach, HostAllocs)
  \/ SetHost(2, NameArgsReach, {AllocNone})
  \/ AddHost(1, NameArgsReach, HostAllocs)
  \/ AddHost(2, NameArgsReach, {AllocNone})
  \/ SetIP(1, IpArgsReach, IpAllocs)
  \/ SetIP(2, IpArgsReach, {AllocNone})
  \/ SetIPFromText(1, IpTexts, {AllocNone})
  \/ Inherit(1, 2, MergeAllocs)
  \/ AssignFrom(1, 2, MergeAllocs)
  \/ InheritProfile(1, ProfileNames, {AllocNone})
  \/ AssignProfile(1, ProfileNames, {AllocNone})

SpecReach == InitReach /\ [][NextReach]_vars

\* SpecAlias: the lists on the heap.  Store 2 is driven through the host and
\* policy setters, each store is merged into the other, SetPolicies on store
\* 1 is given the list of store 2, and either store is destroyed and created
\* anew.  SetHost is given no name or "a", AddHost "aa", AddPolicy the oid 1.
InitAlias ==
  /\ \E f \in {{}, {X509_VP_FLAG_OVERWRITE}} :
       p = [i \in StoreIds |->
              IF i = 1 THEN X509_VERIFY_PARAM_new
              ELSE WithInhFlags(X509_VERIFY_PARAM_new, f)]
  /\ pre = p[1]
  /\ last = NoCall
  /\ mem = EmptyMem

NextAlias ==
  \/ MSetHost(2, {<<NULL, 0>>, <<Ptr(<<CharA>>), 0>>}, {AllocNone})
  \/ MAddHost(2, {<<Ptr(<<CharA, CharA>>), 0>>}, {AllocNone, AllocPush})
  \/ MAddPolicy(2, {1}, {AllocNone})
  \/ MSetPolicies(2, 0, {AllocNone})
  \/ MSetPolicies(1, 2, {AllocNone})
  \/ MInherit(1, 2, {AllocNone, AllocHosts})
  \/ MInherit(2, 1, {AllocNone, AllocHosts})
  \/ MAssignFrom(1, 2, {AllocNone, AllocPolicies})
  \/ \E d \in StoreIds : MFreeAndNew(d)

SpecAlias == InitAlias /\ [][NextAlias]_vars

\* ------------------------------------------------------------------ claims

\* The claims are stated on the state after a call: p[1] is the store the
\* call was made on, pre is that store before the call, p[2] is the src of a
\* merge (a merge only reads it).

IsInherit == last.op = "Inherit" /\ last.d = 1 /\ last.s = 2

IsAssign == last.op = "AssignFrom" /\ last.d = 1 /\ last.s = 2

\* the effective mode of the latest merge
Effective ==
  pre.inh_flags \cup p[2].inh_flags \cup
  (IF last.op = "AssignFrom" THEN {X509_VP_FLAG_DEFAULT} ELSE {})

Locked == X509_VP_FLAG_LOCKED \in Effective

ToOverwrite == X509_VP_FLAG_OVERWRITE \in Effective

ToDefault == X509_VP_FLAG_DEFAULT \in Effective

\* the value the generic rule gives a field of dest
RuleValue(srcfield, destfield, sentinel) ==
  IF ToOverwrite \/ (srcfield # sentinel /\ (ToDefault \/ destfield = sentinel))
  THEN srcfield
  ELSE destfield

\* C1: an Inherit whose effective mode lacks the locked bit sets each of
\* purpose, trust (sentinel 0) and depth (sentinel -1) to src's value exactly
\* when toOverwrite holds, or src's value is not the sentinel and (toDefault
\* holds or dest's value is the sentinel); otherwise the field keeps its value.
C1_ScalarRule ==
  (IsInherit /\ ~Locked) =>
    /\ p[1].purpose = RuleValue(p[2].purpose, pre.purpose, 0)
    /\ p[1].trust = RuleValue(p[2].trust, pre.trust, 0)
    /\ p[1].depth = RuleValue(p[2].depth, pre.depth, -1)

\* an unlocked plain Inherit that copied purpose into an unset field, kept a
\* configured trust against an unset src, and kept a configured depth of 0
\* against a configured src
C1_Witness ==
  /\ IsInherit /\ ~Locked /\ ~ToOverwrite /\ ~ToDefault
  /\ pre.purpose = 0 /\ p[2].purpose # 0 /\ p[1].purpose = p[2].purpose
  /\ pre.trust # 0 /\ p[2].trust = 0 /\ p[1].trust = pre.trust
  /\ pre.depth = 0 /\ p[2].depth = 100 /\ p[1].depth = 0

SameCopiedFields(dest, src) ==
  /\ dest.purpose = src.purpose
  /\ dest.trust = src.trust
  /\ dest.depth = src.depth
  /\ dest.policies = src.policies
  /\ dest.hosts = src.hosts
  /\ dest.email = src.email
  /\ dest.ip = src.ip

\* C3 as stated: for every src, AssignFrom on a store fresh from
\* X509_VERIFY_PARAM_new, with no allocation failure, leaves dest equal to
\* src on purpose, trust, depth, policies, hosts, email and ip, and leaves
\* dest.inh_flags as it was.
C3_FreshAssignEqualsSrc ==
  (IsAssign /\ pre = X509_VERIFY_PARAM_new /\ last.fail = AllocNone) =>
    /\ SameCopiedFields(p[1], p[2])
    /\ p[1].inh_flags = pre.inh_flags

\* C3 amended: the same, for every src whose inh_flags lacks the locked bit.
C3_FreshAssignUnlocked ==
  (/\ IsAssign /\ pre = X509_VERIFY_PARAM_new /\ last.fail = AllocNone
   /\ X509_VP_FLAG_LOCKED \notin p[2].inh_flags) =>
    /\ SameCopiedFields(p[1], p[2])
    /\ p[1].inh_flags = pre.inh_flags

\* an AssignFrom into a fresh store from a src with every copied field
\* configured (two hosts) and the once bit set
C3_Witness ==
  /\ IsAssign /\ pre = X509_VERIFY_PARAM_new /\ last.fail = AllocNone
  /\ p[2].inh_flags = {X509_VP_FLAG_ONCE}
  /\ p[2].purpose # 0 /\ p[2].trust # 0 /\ p[2].depth # -1
  /\ p[2].policies # NULL /\ p[2].email # NULL /\ p[2].ip # NULL
  /\ Len(HostList(p[2])) = 2
  /\ p[1].hosts = p[2].hosts

\* store a with inh_flags left out of the comparison
ButInhFlags(a) == [a EXCEPT !.inh_flags = {}]

\* C4: an Inherit whose effective mode has the locked bit, from either store,
\* returns success and leaves every field of dest other than inh_flags as it
\* was.
C4_LockedKeepsFields ==
  (IsInherit /\ Locked) =>
    /\ last.ret = 1
    /\ ButInhFlags(p[1]) = ButInhFlags(pre)

\* an Inherit locked by src alone, between two stores that differ in every
\* field
C4_Witness ==
  /\ IsInherit
  /\ X509_VP_FLAG_LOCKED \in p[2].inh_flags
  /\ X509_VP_FLAG_LOCKED \notin pre.inh_flags
  /\ ButInhFlags(pre) = ButInhFlags(ConfigA)
  /\ ButInhFlags(p[2]) = ButInhFlags(ConfigB)
  /\ last.ret = 1

\* C5: after an Inherit from a present src, dest.inh_flags is 0 when the
\* effective mode has the once bit, whatever the outcome, and is unchanged
\* when it has not.
C5_OnceConsumed ==
  IsInherit =>
    p[1].inh_flags =
      (IF X509_VP_FLAG_ONCE \in Effective THEN {} ELSE pre.inh_flags)

\* a locked Inherit with the once bit from src, on a dest that had mode bits
C5_Witness ==
  /\ IsInherit /\ Locked
  /\ X509_VP_FLAG_ONCE \in p[2].inh_flags
  /\ X509_VP_FLAG_ONCE \notin pre.inh_flags
  /\ pre.inh_flags # {}
  /\ p[1].inh_flags = {}

\* C6: AssignFrom returns with dest.inh_flags as it was before the call,
\* whatever the outcome and whatever mode bits either store carries.
C6_AssignKeepsInhFlags ==
  last.op = "AssignFrom" => p[1].inh_flags = pre.inh_flags

\* a failed AssignFrom on a dest with the once bit and without the default bit
C6_Witness ==
  /\ IsAssign /\ last.ret = 0
  /\ X509_VP_FLAG_ONCE \in pre.inh_flags
  /\ X509_VP_FLAG_DEFAULT \notin pre.inh_flags
  /\ p[1].inh_flags = pre.inh_flags

\* C7: an Inherit from a src whose ip is absent, with no allocation failure,
\* returns success and does not set dest.poison on its own.
C7_AbsentIpNeverFails ==
  (IsInherit /\ p[2].ip = NULL /\ last.fail = AllocNone) =>
    /\ last.ret = 1
    /\ p[1].poison = 1 => (pre.poison = 1 \/ p[2].poison = 1)

\* C8: once poison is true on a store, it is true after every later call on
\* that store.
C8_PoisonSticky ==
  (last.op # "none" /\ pre.poison = 1) => p[1].poison = 1

\* the arguments hold a NUL within the given length
NulInLength(arg) ==
  arg[1] # NULL /\ \E i \in 1..arg[2] : i <= Len(Deref(arg[1])) /\ Deref(arg[1])[i] = 0

\* the latest call is a host, email or ip setter call with an input the
\* setter rejects: an embedded NUL, or an ip length other than 4 and 16
RejectedSetterInput ==
  \/ last.op \in {"SetHost", "AddHost", "SetEmail"} /\ NulInLength(last.arg)
  \/ last.op = "SetIP" /\ last.arg[2] \notin {4, 16}

\* the latest call is SetIPFromText with a text that is no address literal
UnrecognisedText ==
  last.op = "SetIPFromText" /\ last.arg[1] \notin {"1.2.3.4", "::1"}

\* C9: every identity-setter call that reports a validation failure (an
\* embedded NUL, an ip length other than 4 and 16, a text the parser does not
\* recognise) fails and leaves poison true.
C9_ValidationFailurePoisons ==
  (RejectedSetterInput \/ UnrecognisedText) =>
    last.ret = 0 /\ p[1].poison = 1

\* C10: a setter call rejected for an embedded NUL or a bad ip length leaves
\* hosts, email, emaillen, ip and iplen as they were.
C10_RejectKeepsIdentity ==
  RejectedSetterInput =>
    /\ last.ret = 0
    /\ p[1].hosts = pre.hosts
    /\ p[1].email = pre.email /\ p[1].emaillen = pre.emaillen
    /\ p[1].ip = pre.ip /\ p[1].iplen = pre.iplen

\* a SetHost rejected for an embedded NUL on a store with two hosts, an email
\* and an ip configured: all three are still there
C10_Witness ==
  /\ last.op = "SetHost" /\ NulInLength(last.arg) /\ last.ret = 0
  /\ Len(HostList(pre)) = 2 /\ pre.email # NULL /\ pre.ip # NULL
  /\ p[1].hosts = pre.hosts /\ p[1].email = pre.email /\ p[1].ip = pre.ip

\* the name a host or email setter call works on: the bytes of the buffer up
\* to the given length, or up to the first NUL when the length is 0; empty
\* for a null pointer
EffectiveName(arg) ==
  IF arg[1] = NULL
  THEN <<>>
  ELSE SubSeq(Deref(arg[1]), 1,
              IF arg[2] = 0 THEN strlen(Deref(arg[1])) ELSE arg[2])

\* the latest call is a host setter call with a NUL-free name, in which no
\* allocation failed
AcceptedHostCall ==
  /\ last.op \in {"SetHost", "AddHost"}
  /\ ~NulInLength(last.arg)
  /\ last.fail = AllocNone

\* C11: with a NUL-free name and no allocation failure, SetHost leaves the
\* one-element list [name] (hosts absent for a null or empty name) and AddHost
\* leaves the previous list with name appended (the list unchanged for a null
\* or empty name); both succeed.
C11_HostListRule ==
  AcceptedHostCall =>
    /\ last.ret = 1
    /\ p[1].hosts =
         (IF EffectiveName(last.arg) = <<>>
          THEN (IF last.op = "SetHost" THEN NULL ELSE pre.hosts)
          ELSE IF last.op = "SetHost"
          THEN Ptr(<<EffectiveName(last.arg)>>)
          ELSE Ptr(Append(HostList(pre), EffectiveName(last.arg))))

\* an AddHost of a name the one-element list already holds: the duplicate is
\* appended
C11_Witness ==
  /\ AcceptedHostCall /\ last.op = "AddHost"
  /\ Len(HostList(pre)) = 1
  /\ EffectiveName(last.arg) = HostList(pre)[1]
  /\ p[1].hosts = Ptr(<<HostList(pre)[1], HostList(pre)[1]>>)

\* C12: SetEmail with length 0 and an email that is null, or a non-null string
\* of detected length 0, succeeds and leaves the stored email absent with
\* emaillen 0.
C12_EmptyEmailAbsent ==
  (/\ last.op = "SetEmail" /\ last.arg[2] = 0
   /\ EffectiveName(last.arg) = <<>> /\ last.fail = AllocNone) =>
    /\ last.ret = 1
    /\ p[1].email = NULL
    /\ p[1].emaillen = 0

\* C15 as stated: every successful SetPolicies leaves the policy-check bit
\* set in flags, whether the argument is a list or absent, and AddPolicy
\* never changes flags.
C15_SetPoliciesForcesCheck ==
  /\ (last.op = "SetPolicies" /\ last.ret = 1) =>
       X509_V_FLAG_POLICY_CHECK \in p[1].flags
  /\ last.op = "AddPolicy" => p[1].flags = pre.flags

\* C15 amended: a successful SetPolicies with a list leaves a copy of it and
\* adds the policy-check bit to flags; SetPolicies with an absent argument
\* succeeds, leaves policies absent and flags as they were; AddPolicy never
\* changes flags.
C15_PresentForcesCheck ==
  /\ (last.op = "SetPolicies" /\ last.ret = 1 /\ last.arg[1] # NULL) =>
       /\ p[1].policies = last.arg[1]
       /\ p[1].flags = pre.flags \cup {X509_V_FLAG_POLICY_CHECK}
  /\ (last.op = "SetPolicies" /\ last.arg[1] = NULL) =>
       /\ last.ret = 1
       /\ p[1].policies = NULL
       /\ p[1].flags = pre.flags
  /\ last.op = "AddPolicy" => p[1].flags = pre.flags

\* a SetPolicies with an absent argument on a store with policies and without
\* the policy-check bit: the policies are gone, the bit is still clear
C15_Witness ==
  /\ last.op = "SetPolicies" /\ last.arg[1] = NULL /\ last.ret = 1
  /\ pre.policies # NULL /\ p[1].policies = NULL
  /\ X509_V_FLAG_POLICY_CHECK \notin p[1].flags

\* C16: in an Inherit that is not locked, when toOverwrite holds or dest's
\* use-check-time bit was clear, dest.check_time becomes src.check_time and
\* dest's use-check-time bit ends set exactly when src.flags carries it;
\* otherwise dest.check_time keeps its value.
C16_CheckTimeRule ==
  (IsInherit /\ ~Locked) =>
    IF ToOverwrite \/ X509_V_FLAG_USE_CHECK_TIME \notin pre.flags
    THEN /\ p[1].check_time = p[2].check_time
         /\ X509_V_FLAG_USE_CHECK_TIME \in p[1].flags
              <=> X509_V_FLAG_USE_CHECK_TIME \in p[2].flags
    ELSE p[1].check_time = pre.check_time

\* an Inherit with the default bit into a dest with an explicit check time,
\* from a src with another explicit check time: dest keeps its own
C16_Witness ==
  /\ IsInherit /\ ~Locked /\ ~ToOverwrite /\ ToDefault
  /\ X509_V_FLAG_USE_CHECK_TIME \in pre.flags
  /\ X509_V_FLAG_USE_CHECK_TIME \in p[2].flags
  /\ pre.check_time # p[2].check_time
  /\ p[1].check_time = pre.check_time

\* C17: after a successful Inherit whose effective mode has the reset-flags
\* bit and not the locked bit, dest.flags equals src.flags.
C17_ResetCopiesFlags ==
  (/\ IsInherit /\ X509_VP_FLAG_RESET_FLAGS \in Effective /\ ~Locked
   /\ last.ret = 1) =>
    p[1].flags = p[2].flags

\* the Inherit copies the host list: the hosts field is selected, src has a
\* list, and no copy up to this one failed
HostsCopied ==
  /\ ~Locked
  /\ test_x509_verify_param_copy(ToOverwrite, ToDefault, p[2].hosts,
                                 pre.hosts, NULL)
  /\ p[2].hosts # NULL
  /\ last.fail \notin {AllocPolicies, AllocHosts}

\* C18: after an Inherit, dest.hostflags equals src.hostflags when the call
\* replaced dest.hosts by a copy of a present src.hosts, and is unchanged in
\* every other case.
C18_HostFlagsWithHosts ==
  IsInherit =>
    IF HostsCopied
    THEN p[1].hosts = p[2].hosts /\ p[1].hostflags = p[2].hostflags
    ELSE p[1].hostflags = pre.hostflags

\* an overwriting Inherit from a src without hosts into a dest with hosts and
\* other host flags: the list is cleared, the host flags stay
C18_Witness ==
  /\ IsInherit /\ ToOverwrite /\ ~Locked
  /\ pre.hosts # NULL /\ p[2].hosts = NULL /\ p[1].hosts = NULL
  /\ pre.hostflags # p[2].hostflags
  /\ p[1].hostflags = pre.hostflags

\* the ip of a store is absent, or 4 or 16 bytes long with iplen that length
IpWellFormed(param) ==
  \/ param.ip = NULL
  \/ Len(Deref(param.ip)) \in {4, 16} /\ param.iplen = Len(Deref(param.ip))

\* C13: in every reachable state the ip of every store is absent, or has
\* length 4 or 16 with iplen equal to that length.
C13_IpLength ==
  \A i \in StoreIds : IpWellFormed(p[i])

\* a SetIP with length 5 rejected on a store that holds a 16-byte ip, which
\* it keeps
C13_Witness ==
  /\ last.op = "SetIP" /\ last.arg[2] = 5 /\ last.ret = 0
  /\ pre.ip # NULL /\ Len(Deref(pre.ip)) = 16
  /\ p[last.d].ip = pre.ip /\ p[last.d].iplen = 16

\* the hosts of a store are absent, or a non-empty list of non-empty NUL-free
\* strings
HostsWellFormed(param) ==
  \/ param.hosts = NULL
  \/ /\ Len(Deref(param.hosts)) > 0
     /\ \A i \in 1..Len(Deref(param.hosts)) :
          /\ Len(Deref(param.hosts)[i]) > 0
          /\ \A j \in 1..Len(Deref(param.hosts)[i]) :
               Deref(param.hosts)[i][j] # NUL

\* C14: in every reachable state the hosts of every store are absent or a
\* non-empty list of non-empty NUL-free strings.
C14_HostsNonEmpty ==
  \A i \in StoreIds : HostsWellFormed(p[i])

\* a SetHost whose push failed on a store that held a host: the list just
\* created is freed again and hosts is absent
C14_Witness ==
  /\ last.op = "SetHost" /\ last.fail = AllocPush
  /\ pre.hosts # NULL
  /\ p[last.d].hosts = NULL

\* the addresses a store owns: its two lists and their elements
Owned(m, param) ==
  UNION {{Deref(q)} \cup
         (IF m[Deref(q)].kind = "stack" THEN Range(m[Deref(q)].val) ELSE {}) :
           q \in {param.hosts, param.policies} \ {NULL}}

\* what a list pointer of a store shows: the kind of the cell it points to and
\* the cells of its elements
ListView(m, q) ==
  IF q = NULL
  THEN [kind |-> "null", items |-> <<>>]
  ELSE IF m[Deref(q)].kind # "stack"
  THEN [kind |-> m[Deref(q)].kind, items |-> <<>>]
  ELSE [kind |-> "stack",
        items |-> [i \in 1..Len(m[Deref(q)].val) |-> m[m[Deref(q)].val[i]]]]

\* the list at q is live, and so is each of its elements, of the given kind
ListIntact(m, q, kind) ==
  /\ ListView(m, q).kind \in {"null", "stack"}
  /\ \A i \in 1..Len(ListView(m, q).items) :
       ListView(m, q).items[i].kind = kind

\* C19: the two stores share no list and no element, each list of a store and
\* each of its elements is live, and a call on one store (a setter, a merge
\* into it, its destruction) leaves the hosts and the policies of the other
\* store as they were.
C19_DeepCopyIndependence ==
  [][/\ Owned(mem', p'[1]) \cap Owned(mem', p'[2]) = {}
     /\ \A i \in StoreIds :
          /\ ListIntact(mem', p'[i].hosts, "str")
          /\ ListIntact(mem', p'[i].policies, "oid")
     /\ \A i \in StoreIds \ {last'.d} :
          /\ ListView(mem', p'[i].hosts) = ListView(mem, p[i].hosts)
          /\ ListView(mem', p'[i].policies) = ListView(mem, p[i].policies)]_vars

\* store 1 holds the host and the policy that a merge copied from store 2,
\* and store 2 has since been given a second host by AddHost and has had its
\* policies cleared by SetPolicies
C19_Witness ==
  /\ last.op = "SetPolicies" /\ last.d = 2 /\ last.s = 0
  /\ p[2].policies = NULL
  /\ Len(ListView(mem, p[1].hosts).items) = 1
  /\ Len(ListView(mem, p[1].policies).items) = 1
  /\ Len(ListView(mem, p[2].hosts).items) = 2

====
